---- MODULE Spec2Model ----
(***************************************************************************)
(* A model of rdb_parser.py: the byte reader, the length and string        *)
(* codecs, the intset / ziplist / listpack container decoders, the value   *)
(* decoder and the record loop of RDBParser.parse.                         *)
(*                                                                         *)
(* Bytes are integers 0..255, byte strings and texts are sequences of      *)
(* them (a text is the sequence of its code points).  A reader is an       *)
(* operator of the file f and the offset p of the cursor; it yields        *)
(* [err, val, pos]: err is "ok", "EOF" (EOFError) or "Exception" (any      *)
(* other exception), pos the offset the cursor is left at.                 *)
(***************************************************************************)
EXTENDS Integers, Sequences, FiniteSets, TLC

VARIABLES
    file,           \* the bytes of the input file
    simple_format,  \* RDBParser.simple_format
    lpc,            \* where parse() is: "header", "loop", "done", "raised"
    fpos,           \* the offset of self.file
    data,           \* self.data: key -> entry
    aux_data,       \* self.aux_data: name -> value
    current_db,     \* self.current_db
    version_str,    \* parse()'s version_str
    expiry,         \* parse()'s pending expiry
    idle,           \* parse()'s pending idle
    freq,           \* parse()'s pending freq
    src,            \* history: the records the file was synthesised from
    last,           \* history: what the last iteration of the record loop did
    hist,           \* history: what every iteration of the record loop did
    cname,          \* container run: the decoder under way
    cbuf,           \* container run: the raw buffer given to the decoder
    cin,            \* container run: the values the buffer was synthesised from
    cpc,            \* container run: "loop" or "done"
    cst,            \* container run: the decoder's loop state
    call            \* codec call: a codec applied to a buffer, and what it returned

parseVars == <<file, simple_format, lpc, fpos, data, aux_data, current_db,
               version_str, expiry, idle, freq, src, last, hist>>
contVars == <<cname, cbuf, cin, cpc, cst, call>>
vars == <<file, simple_format, lpc, fpos, data, aux_data, current_db,
          version_str, expiry, idle, freq, src, last, hist,
          cname, cbuf, cin, cpc, cst, call>>

-----------------------------------------------------------------------------
(* Program constants.                                                      *)

OPCODE_IDLE == 248
OPCODE_FREQ == 249
OPCODE_AUX == 250
OPCODE_RESIZEDB == 251
OPCODE_EXPIRETIME_MS == 252
OPCODE_EXPIRETIME == 253
OPCODE_SELECTDB == 254
OPCODE_EOF == 255

TYPE_STRING == 0
TYPE_LIST == 1
TYPE_SET == 2
TYPE_ZSET == 3
TYPE_HASH == 4
TYPE_ZSET_2 == 5
TYPE_HASH_ZIPMAP == 9
TYPE_LIST_ZIPLIST == 10
TYPE_SET_INTSET == 11
TYPE_ZSET_ZIPLIST == 12
TYPE_HASH_ZIPLIST == 13
TYPE_LIST_QUICKLIST == 14
TYPE_STREAM_LISTPACKS == 15
TYPE_HASH_LISTPACK == 16
TYPE_ZSET_LISTPACK == 17
TYPE_LIST_QUICKLIST_2 == 18
TYPE_STREAM_LISTPACKS_2 == 19
TYPE_SET_LISTPACK == 20
TYPE_STREAM_LISTPACKS_3 == 21

RDB_6BITLEN == 0
RDB_14BITLEN == 1
RDB_ENCVAL == 3

RDB_ENC_INT8 == 0
RDB_ENC_INT16 == 1
RDB_ENC_INT32 == 2
RDB_ENC_LZF == 3

\* read_string: "Max 100MB strings", 1024 * 1024 * 100
MAX_STRING_LENGTH == 1024 * 1024 * 100

\* read_set_intset: range(min(length, 1000))
INTSET_LIMIT == 1000

\* parse_ziplist: zllen of 65535 means "traverse", with count 999999
ZLLEN_UNKNOWN == 65535
ZIPLIST_TRAVERSE_COUNT == 999999

-----------------------------------------------------------------------------
(* Sequences, bytes and texts.                                             *)

Min(a, b) == IF a < b THEN a ELSE b
Max(a, b) == IF a > b THEN a ELSE b

\* Python's data[a:b] for 0 <= a, on a 1-based sequence: the slice is cut at
\* the end of the data, never an error
Slice(s, a, b) == SubSeq(s, a + 1, Min(b, Len(s)))

\* Python's data[i]
At(s, i) == s[i + 1]

\* Python's s.startswith(prefix)
startswith(s, prefix) ==
    /\ Len(s) >= Len(prefix)
    /\ SubSeq(s, 1, Len(prefix)) = prefix

\* int.from_bytes(b, 'little', signed=False); struct '<H', '<I', '<Q'
RECURSIVE LEUnsigned(_)
LEUnsigned(b) ==
    IF Len(b) = 0 THEN 0
    ELSE LET hi == LEUnsigned(Tail(b))
         IN  IF hi = 0 THEN Head(b) ELSE Head(b) + 256 * hi

\* int.from_bytes(b, 'little', signed=True); struct 'b', '<h', '<i', '<q'.
\* A negative value is -(1 + the value of the complemented bytes), so that a
\* sign-extended small value is computed without a large intermediate.
LESigned(b) ==
    IF Len(b) = 0 THEN 0
    ELSE IF b[Len(b)] < 128 THEN LEUnsigned(b)
    ELSE -(1 + LEUnsigned([i \in 1..Len(b) |-> 255 - b[i]]))

\* str(n) for an integer n: the decimal digits, '-' first when negative
RECURSIVE Digits(_)
Digits(n) == IF n < 10 THEN <<48 + n>> ELSE Append(Digits(n \div 10), 48 + (n % 10))

str(n) == IF n < 0 THEN <<45>> \o Digits(-n) ELSE Digits(n)

\* The decimal text of a little-endian integer of any width, computed on the
\* bytes: str(struct.unpack('<q', b)[0]) where the value may exceed 32 bits
RECURSIVE DivMod10(_, _)
DivMod10(be, carry) ==
    IF Len(be) = 0 THEN [q |-> <<>>, r |-> carry]
    ELSE LET cur == carry * 256 + Head(be)
             rest == DivMod10(Tail(be), cur % 10)
         IN  [q |-> <<cur \div 10>> \o rest.q, r |-> rest.r]

RECURSIVE DecimalBE(_)
DecimalBE(be) ==
    IF \A i \in 1..Len(be) : be[i] = 0 THEN <<>>
    ELSE LET d == DivMod10(be, 0) IN Append(DecimalBE(d.q), 48 + d.r)

UnsignedDecimal(b) ==
    LET t == DecimalBE([i \in 1..Len(b) |-> b[Len(b) + 1 - i]])
    IN  IF Len(t) = 0 THEN <<48>> ELSE t

RECURSIVE AddOne(_)
AddOne(b) ==
    IF Len(b) = 0 THEN <<>>
    ELSE IF Head(b) = 255 THEN <<0>> \o AddOne(Tail(b))
    ELSE <<Head(b) + 1>> \o Tail(b)

SignedDecimal(b) ==
    IF Len(b) > 0 /\ b[Len(b)] >= 128
    THEN <<45>> \o UnsignedDecimal(AddOne([i \in 1..Len(b) |-> 255 - b[i]]))
    ELSE UnsignedDecimal(b)

\* bytes.decode('utf-8', errors='replace') on bytes that hold no multi-byte
\* UTF-8 sequence: an ASCII byte is its character, any other byte is U+FFFD
decode_replace(b) == [i \in 1..Len(b) |-> IF b[i] < 128 THEN b[i] ELSE 65533]

\* The decoder's placeholder texts
TXT_UNKNOWN == <<60, 117, 110, 107, 110, 111, 119, 110>>
TXT_BINARY == <<60, 98, 105, 110, 97, 114, 121>>
TXT_PARSE_ERROR == <<60, 112, 97, 114, 115, 101, 95, 101, 114, 114, 111, 114>>
TXT_INVALID == <<60, 105, 110, 118, 97, 108, 105, 100>>
TXT_PARSE_ERROR_ENC == TXT_PARSE_ERROR \o <<95, 101, 110, 99, 58>>
TXT_INVALID_LENGTH == TXT_INVALID \o <<95, 108, 101, 110, 103, 116, 104, 58>>
TXT_BYTES == <<32, 98, 121, 116, 101, 115, 62>>
TXT_UNKNOWN_TYPE == TXT_UNKNOWN \o <<32, 116, 121, 112, 101, 32>>
TXT_STREAM_WITH == <<60, 115, 116, 114, 101, 97, 109, 32, 119, 105, 116, 104, 32>>
TXT_ELEMENTS == <<32, 101, 108, 101, 109, 101, 110, 116, 115, 62>>
TXT_ZIPMAP == <<60, 122, 105, 112, 109, 97, 112, 58>>
\* b"<LZF compressed data - install python-lzf to decompress>"
TXT_LZF == <<60, 76, 90, 70, 32, 99, 111, 109, 112, 114, 101, 115, 115, 101,
             100, 32, 100, 97, 116, 97, 32, 45, 32, 105, 110, 115, 116, 97,
             108, 108, 32, 112, 121, 116, 104, 111, 110, 45, 108, 122, 102,
             32, 116, 111, 32, 100, 101, 99, 111, 109, 112, 114, 101, 115,
             115, 62>>

-----------------------------------------------------------------------------
(* ByteReader.                                                             *)

Ok(v, p) == [err |-> "ok", val |-> v, pos |-> p]
Raise(e, p) == [err |-> e, val |-> <<>>, pos |-> p]

\* An exception raised by a read leaves the function that made the read:
\* the statements after the read, rest, run on a result r that is no raise
Then(r, rest(_)) == IF r.err # "ok" THEN r ELSE rest(r)

\* A read_byte that would leave the cursor where it is
read_byte_no_advance(f, p) ==
    IF p >= Len(f) THEN Raise("EOF", Len(f)) ELSE Ok(f[p + 1], p)

\* file.read(n) hands out what is left when less than n bytes are: the
\* cursor is at the end of the file when EOFError is raised
read_byte(f, p) ==
    IF p >= Len(f) THEN Raise("EOF", Len(f)) ELSE Ok(f[p + 1], p + 1)

read_bytes(f, p, n) ==
    IF p + n > Len(f) THEN Raise("EOF", Len(f))
    ELSE Ok(SubSeq(f, p + 1, p + n), p + n)

read_signed_byte(f, p) ==
    LET r == read_bytes(f, p, 1)
    IN  IF r.err # "ok" THEN r ELSE Ok(LESigned(r.val), r.pos)

read_signed_short(f, p) ==
    LET r == read_bytes(f, p, 2)
    IN  IF r.err # "ok" THEN r ELSE Ok(LESigned(r.val), r.pos)

read_signed_int(f, p) ==
    LET r == read_bytes(f, p, 4)
    IN  IF r.err # "ok" THEN r ELSE Ok(LESigned(r.val), r.pos)

read_unsigned_int(f, p) ==
    LET r == read_bytes(f, p, 4)
    IN  IF r.err # "ok" THEN r ELSE Ok(LEUnsigned(r.val), r.pos)

read_unsigned_long(f, p) ==
    LET r == read_bytes(f, p, 8)
    IN  IF r.err # "ok" THEN r ELSE Ok(LEUnsigned(r.val), r.pos)

-----------------------------------------------------------------------------
(* LengthCodec and StringCodec.                                            *)

\* val is [length, is_encoded, encoding]; length is 0 where the code has None
\* (is_encoded), encoding is 0 where the code has None (not is_encoded)
read_length_with_encoding(f, p) ==
    LET Len_(n, q) == Ok([length |-> n, is_encoded |-> FALSE, encoding |-> 0], q)
        decode(byte, q) ==
            LET enc_type == byte \div 64
            IN  IF enc_type = RDB_ENCVAL
                THEN Ok([length |-> 0, is_encoded |-> TRUE, encoding |-> byte % 64], q)
                ELSE IF enc_type = RDB_6BITLEN
                THEN Len_(byte % 64, q)
                ELSE IF enc_type = RDB_14BITLEN
                THEN Then(read_byte(f, q),
                          LAMBDA n : Len_((byte % 64) * 256 + n.val, n.pos))
                ELSE \* enc_type = 2
                    IF byte % 64 = 1
                    THEN Then(read_unsigned_long(f, q), LAMBDA n : Len_(n.val, n.pos))
                    ELSE Then(read_unsigned_int(f, q), LAMBDA n : Len_(n.val, n.pos))
    IN  Then(read_byte(f, p), LAMBDA b : decode(b.val, b.pos))

read_length(f, p) ==
    Then(read_length_with_encoding(f, p),
         LAMBDA h : IF h.val.is_encoded THEN Raise("Exception", h.pos)
                    ELSE Ok(h.val.length, h.pos))

\* `import lzf` fails (python-lzf is no part of the repository): the
\* placeholder is returned, whatever the data
lzf_decompress(d, expected_length) == TXT_LZF

\* The compressed-string branch shared by read_string and read_string_raw:
\* two lengths, then compressed_len bytes; val is the decompressor's output
read_lzf(f, p) ==
    Then(read_length(f, p), LAMBDA c :
    Then(read_length(f, c.pos), LAMBDA u :
    Then(read_bytes(f, u.pos, c.val), LAMBDA d :
         Ok(lzf_decompress(d.val, u.val), d.pos))))

read_string(f, p) ==
    LET Number(r) == Ok(str(r.val), r.pos)
        Text(r) == Ok(decode_replace(r.val), r.pos)
        decode(h) ==
            LET encoding == h.val.encoding
                length == h.val.length
            IN  IF h.val.is_encoded THEN
                    IF encoding = RDB_ENC_INT8
                    THEN Then(read_signed_byte(f, h.pos), Number)
                    ELSE IF encoding = RDB_ENC_INT16
                    THEN Then(read_signed_short(f, h.pos), Number)
                    ELSE IF encoding = RDB_ENC_INT32
                    THEN Then(read_signed_int(f, h.pos), Number)
                    ELSE IF encoding = RDB_ENC_LZF
                    THEN Then(read_lzf(f, h.pos), Text)
                    ELSE Ok(TXT_PARSE_ERROR_ENC \o str(encoding) \o <<62>>, h.pos)
                ELSE IF length = 0 THEN Ok(<<>>, h.pos)
                ELSE IF length > MAX_STRING_LENGTH
                    THEN Ok(TXT_INVALID_LENGTH \o str(length) \o <<62>>, h.pos)
                ELSE Then(read_bytes(f, h.pos, length), Text)
    IN  Then(read_length_with_encoding(f, p), decode)

\* struct.pack('<h' / '<i', n): n as w little-endian bytes
RECURSIVE LEBytes(_, _)
LEBytes(n, w) ==
    IF w = 0 THEN <<>>
    ELSE <<n % 256>> \o LEBytes((n - (n % 256)) \div 256, w - 1)

read_string_raw(f, p) ==
    LET decode(h) ==
            LET encoding == h.val.encoding
                length == h.val.length
            IN  IF h.val.is_encoded THEN
                    IF encoding = RDB_ENC_INT8
                    THEN Then(read_signed_byte(f, h.pos),
                              LAMBDA r : Ok(<<r.val % 256>>, r.pos))
                    ELSE IF encoding = RDB_ENC_INT16
                    THEN Then(read_signed_short(f, h.pos),
                              LAMBDA r : Ok(LEBytes(r.val, 2), r.pos))
                    ELSE IF encoding = RDB_ENC_INT32
                    THEN Then(read_signed_int(f, h.pos),
                              LAMBDA r : Ok(LEBytes(r.val, 4), r.pos))
                    ELSE IF encoding = RDB_ENC_LZF
                    THEN read_lzf(f, h.pos)
                    ELSE Ok(<<>>, h.pos)
                ELSE IF length = 0 THEN Ok(<<>>, h.pos)
                ELSE read_bytes(f, h.pos, length)
    IN  Then(read_length_with_encoding(f, p), decode)

\* val is the text of the score: float() of the ASCII text is modelled on
\* decimal digit strings, whose value it keeps; any other text raises
\* (ValueError, or UnicodeDecodeError for a non-ASCII byte)
read_double(f, p) ==
    LET IsDigits(t) == Len(t) > 0 /\ \A i \in 1..Len(t) : t[i] \in 48..57
        decode(b) ==
            IF b.val = 255 THEN Ok(<<45, 105, 110, 102>>, b.pos)
            ELSE IF b.val = 254 THEN Ok(<<105, 110, 102>>, b.pos)
            ELSE IF b.val = 253 THEN Ok(<<110, 97, 110>>, b.pos)
            ELSE Then(read_bytes(f, b.pos, b.val),
                      LAMBDA r : IF IsDigits(r.val) THEN Ok(r.val, r.pos)
                                 ELSE Raise("Exception", r.pos))
    IN  Then(read_byte(f, p), decode)

-----------------------------------------------------------------------------
(* Container decoders.  An element of a container is an integer, held as   *)
(* its decimal text (Python's integers have no width), or a text.          *)

IntElem(t) == [isInt |-> TRUE, s |-> t]
StrElem(t) == [isInt |-> FALSE, s |-> t]

\* str(e) of an element
ElemStr(e) == e.s

\* What an entry parser returns: (value, bytes_read), value None when ~some;
\* hi is the largest index + 1 or slice bound the call used on its argument
Entry(e, n, h) == [some |-> TRUE, value |-> e, bytes_read |-> n, hi |-> h]
NoEntry(n, h) == [some |-> FALSE, value |-> IntElem(<<48>>), bytes_read |-> n, hi |-> h]

parse_ziplist_entry(d) ==
    LET n == Len(d)
        prevlen == At(d, 0)
        offset0 == IF prevlen = 254 THEN 5 ELSE 1
        encoding == At(d, offset0)
        offset == offset0 + 1
        StrAt(o, length) ==
            IF o + length > n THEN NoEntry(0, o)
            ELSE Entry(StrElem(decode_replace(Slice(d, o, o + length))),
                       o + length, o + length)
        IntAt(w) ==
            IF offset + w > n THEN NoEntry(0, offset)
            ELSE Entry(IntElem(SignedDecimal(Slice(d, offset, offset + w))),
                       offset + w, offset + w)
    IN  IF n < 2 THEN NoEntry(0, 0)
        ELSE IF prevlen = 254 /\ n < 5 THEN NoEntry(0, 1)
        ELSE IF offset0 >= n THEN NoEntry(0, offset0)
        ELSE IF encoding \div 64 = 0 THEN StrAt(offset, encoding % 64)
        ELSE IF encoding \div 64 = 1 THEN
            IF offset >= n THEN NoEntry(0, offset)
            ELSE StrAt(offset + 1, (encoding % 64) * 256 + At(d, offset))
        ELSE IF encoding \div 64 = 2 THEN
            IF offset + 4 > n THEN NoEntry(0, offset)
            ELSE StrAt(offset + 4, LEUnsigned(Slice(d, offset, offset + 4)))
        ELSE IF encoding = 192 THEN IntAt(2)
        ELSE IF encoding = 208 THEN IntAt(4)
        ELSE IF encoding = 224 THEN IntAt(8)
        ELSE IF encoding = 240 THEN IntAt(3)
        ELSE IF encoding = 254 THEN IntAt(1)
        ELSE IF encoding \div 16 = 15
            THEN Entry(IntElem(str((encoding % 16) - 1)), offset, offset)
        ELSE NoEntry(1, offset)

\* The 13-bit integer entry's value: ((byte & 0x0F) << 8) | data[1], less
\* 0x1000 when bit 0x800 is set
listpack_int13_unsigned(byte, b1) == (byte % 16) * 256 + b1

listpack_int13(byte, b1) ==
    LET value == (byte % 16) * 256 + b1
    IN  IF (value \div 2048) % 2 = 1 THEN value - 4096 ELSE value

parse_listpack_entry(d) ==
    LET n == Len(d)
        byte == At(d, 0)
        enc == byte % 16
        StrAt(o, length) ==
            IF n < o + length + 1 THEN NoEntry(0, o)
            ELSE Entry(StrElem(decode_replace(Slice(d, o, o + length))),
                       o + length + 1, o + length + 1)
        IntAt(w) ==
            IF n < 1 + w + 1 THEN NoEntry(0, 1)
            ELSE Entry(IntElem(SignedDecimal(Slice(d, 1, 1 + w))), 1 + w + 1, 1 + w + 1)
    IN  IF n < 2 THEN NoEntry(0, 0)
        ELSE IF byte <= 127 THEN
            IF byte = 0 THEN Entry(StrElem(<<>>), 2, 2) ELSE StrAt(1, byte)
        ELSE IF byte \div 32 = 6 THEN Entry(IntElem(str(byte % 32)), 2, 2)
        ELSE IF byte \div 16 = 14 THEN
            IF n < 3 THEN NoEntry(0, 1)
            ELSE Entry(IntElem(str(listpack_int13(byte, At(d, 1)))), 3, 3)
        ELSE IF byte \div 64 = 2 THEN StrAt(2, (byte % 64) * 256 + At(d, 1))
        ELSE \* 1111xxxx
            IF enc = 1 THEN IntAt(2)
            ELSE IF enc = 2 THEN IntAt(3)
            ELSE IF enc = 3 THEN IntAt(4)
            ELSE IF enc = 4 THEN IntAt(8)
            ELSE IF enc = 0 THEN
                IF n < 5 THEN NoEntry(0, 1)
                ELSE StrAt(5, LEUnsigned(Slice(d, 1, 5)))
            ELSE NoEntry(1, 1)

\* The state of a container decoder's loop: i iterations begun, the cursor
\* pos, the result so far, hi the largest index + 1 or slice bound used on the
\* buffer so far, done once the decoder has returned
LoopState(i, pos, result, hi, done) ==
    [i |-> i, pos |-> pos, result |-> result, hi |-> hi, done |-> done]

Finished(st) == [st EXCEPT !.done = TRUE]

\* One iteration of the entry loop of parse_ziplist (endMarker) and of
\* parse_listpack (not endMarker), given the count and the entry parser's
\* answer on data[pos:]
entry_loop_step(d, st, count, endMarker, e) ==
    IF st.i >= count THEN Finished(st)
    ELSE IF st.pos >= Len(d) - 1 THEN Finished(st)
    ELSE IF endMarker /\ At(d, st.pos) = 255
        THEN Finished([st EXCEPT !.hi = Max(st.hi, st.pos + 1)])
    ELSE LoopState(st.i + 1,
                   st.pos + e.bytes_read,
                   IF e.some THEN Append(st.result, e.value) ELSE st.result,
                   Max(st.hi, st.pos + e.hi),
                   e.bytes_read = 0)

\* parse_ziplist up to its loop: the header is read, pos = 10
ziplist_start(d) ==
    IF Len(d) < 10 THEN LoopState(0, 0, <<>>, 0, TRUE)
    ELSE LoopState(0, 10, <<>>, 10, FALSE)

ziplist_count(d) ==
    LET zllen == LEUnsigned(Slice(d, 8, 10))
    IN  IF zllen < ZLLEN_UNKNOWN THEN zllen ELSE ZIPLIST_TRAVERSE_COUNT

ziplist_step(d, st) ==
    entry_loop_step(d, st, ziplist_count(d), TRUE,
                    parse_ziplist_entry(Slice(d, st.pos, Len(d))))

\* parse_listpack up to its loop: the header is read, pos = 6
listpack_start(d) ==
    IF Len(d) < 7 THEN LoopState(0, 0, <<>>, 0, TRUE)
    ELSE LoopState(0, 6, <<>>, 6, FALSE)

listpack_count(d) == LEUnsigned(Slice(d, 4, 6))

listpack_step(d, st) ==
    entry_loop_step(d, st, listpack_count(d), FALSE,
                    parse_listpack_entry(Slice(d, st.pos, Len(d))))

\* read_set_intset after the raw read, up to its loop
intset_start(d) ==
    IF Len(d) < 8 THEN LoopState(0, 0, <<>>, 0, TRUE)
    ELSE LoopState(0, 8, <<>>, 8, FALSE)

intset_encoding(d) == LEUnsigned(Slice(d, 0, 4))
intset_length(d) == LEUnsigned(Slice(d, 4, 8))

\* size = [2, 4, 8][encoding] if encoding < 3 else 4
intset_size(encoding) ==
    IF encoding < 3 THEN <<2, 4, 8>>[encoding + 1] ELSE 4

\* One iteration of the loop of read_set_intset.  struct.unpack of a slice
\* shorter than the format raises; the bare except returns []
intset_step(d, st) ==
    LET encoding == intset_encoding(d)
        size == intset_size(encoding)
        w == encoding
    IN  IF st.i >= Min(intset_length(d), INTSET_LIMIT) THEN Finished(st)
        ELSE IF st.pos + size > Len(d) THEN Finished(st)
        ELSE IF encoding \notin {2, 4, 8} THEN Finished(st)
        ELSE IF st.pos + w > Len(d)
            THEN LoopState(st.i + 1, st.pos, <<>>, Max(st.hi, st.pos + w), TRUE)
        ELSE LoopState(st.i + 1,
                       st.pos + size,
                       Append(st.result,
                              StrElem(SignedDecimal(Slice(d, st.pos, st.pos + w)))),
                       Max(st.hi, st.pos + w),
                       FALSE)

container_start(name, d) ==
    IF name = "intset" THEN intset_start(d)
    ELSE IF name = "ziplist" THEN ziplist_start(d)
    ELSE listpack_start(d)

container_step(name, d, st) ==
    IF name = "intset" THEN intset_step(d, st)
    ELSE IF name = "ziplist" THEN ziplist_step(d, st)
    ELSE listpack_step(d, st)

\* A decoder run to its return: the list it returns
RECURSIVE RunLoop(_, _, _)
RunLoop(name, d, st) ==
    IF st.done THEN st.result ELSE RunLoop(name, d, container_step(name, d, st))

parse_ziplist(d) == RunLoop("ziplist", d, ziplist_start(d))

-----------------------------------------------------------------------------
(* ValueDecoder.  A decoded value is [shape, items]: shape "str" with one  *)
(* text, "list" with the elements, "dict" with keys and values in turn (in *)
(* insertion order), "zset" with members and scores in turn.               *)

Value(shape, items) == [shape |-> shape, items |-> items]
StrValue(t) == Value("str", <<StrElem(t)>>)

\* A score of a sorted set: a number, held as its text
Score(t) == [isInt |-> TRUE, s |-> t]

\* d[k] = v on a dict held as <<k1, v1, k2, v2, ...>>
RECURSIVE DictPut(_, _, _)
DictPut(items, k, v) ==
    IF Len(items) = 0 THEN <<k, v>>
    ELSE IF items[1] = k THEN <<k, v>> \o SubSeq(items, 3, Len(items))
    ELSE <<items[1], items[2]>> \o DictPut(SubSeq(items, 3, Len(items)), k, v)

\* The hash built from the (key, value) pairs of a container's entries; an
\* odd last entry is dropped
RECURSIVE HashOfEntries(_, _)
HashOfEntries(entries, acc) ==
    IF Len(entries) < 2 THEN acc
    ELSE HashOfEntries(SubSeq(entries, 3, Len(entries)),
                       DictPut(acc, StrElem(ElemStr(entries[1])),
                               StrElem(ElemStr(entries[2]))))

\* The (member, score) pairs of a container's entries: the score is
\* float(entry) for an integer entry and 0 for any other
RECURSIVE ZsetOfEntries(_)
ZsetOfEntries(entries) ==
    IF Len(entries) < 2 THEN <<>>
    ELSE <<StrElem(ElemStr(entries[1])),
           IF entries[2].isInt THEN Score(entries[2].s) ELSE Score(<<48>>)>>
         \o ZsetOfEntries(SubSeq(entries, 3, Len(entries)))

\* list(set(...)): the members without duplicates.  The order of a Python set
\* is that of its hash table; the model keeps the order of first occurrence
RECURSIVE Dedup(_)
Dedup(q) ==
    IF Len(q) = 0 THEN <<>>
    ELSE LET front == Dedup(SubSeq(q, 1, Len(q) - 1))
             x == q[Len(q)]
         IN  IF \E i \in 1..Len(front) : front[i] = x THEN front
             ELSE Append(front, x)

\* n text reads in a row: val is the elements read
RECURSIVE read_strings(_, _, _, _)
read_strings(f, p, n, acc) ==
    IF n = 0 THEN Ok(acc, p)
    ELSE Then(read_string(f, p),
              LAMBDA r : read_strings(f, r.pos, n - 1, Append(acc, StrElem(r.val))))

\* TYPE_ZSET / TYPE_ZSET_2: n times a member and a score
RECURSIVE read_zset(_, _, _, _, _)
read_zset(f, p, n, binary, acc) ==
    IF n = 0 THEN Ok(acc, p)
    ELSE Then(read_string(f, p), LAMBDA m :
         Then(IF binary THEN read_bytes(f, m.pos, 8) ELSE read_double(f, m.pos),
              LAMBDA d : read_zset(f, d.pos, n - 1, binary,
                                   acc \o <<StrElem(m.val), Score(d.val)>>)))

\* TYPE_HASH: n times a key and a value
RECURSIVE read_hash(_, _, _, _)
read_hash(f, p, n, acc) ==
    IF n = 0 THEN Ok(acc, p)
    ELSE Then(read_string(f, p), LAMBDA k :
         Then(read_string(f, k.pos), LAMBDA v :
              read_hash(f, v.pos, n - 1,
                        DictPut(acc, StrElem(k.val), StrElem(v.val)))))

\* read_quicklist: n raw strings, each parsed as a ziplist
RECURSIVE read_quicklist_nodes(_, _, _, _)
read_quicklist_nodes(f, p, n, acc) ==
    IF n = 0 THEN Ok(acc, p)
    ELSE Then(read_string_raw(f, p),
              LAMBDA r : read_quicklist_nodes(f, r.pos, n - 1,
                                              acc \o parse_ziplist(r.val)))

read_quicklist(f, p) ==
    Then(read_length(f, p),
         LAMBDA size : read_quicklist_nodes(f, size.pos, size.val, <<>>))

HashOf(entries) == HashOfEntries(entries, <<>>)
Strs(entries) == [i \in 1..Len(entries) |-> StrElem(ElemStr(entries[i]))]

\* read_list_ziplist, read_set_intset, read_zset_ziplist, read_hash_ziplist,
\* read_hash_listpack, read_zset_listpack and read_set_listpack: a raw read,
\* then the container decoder of the type, then the value built of its
\* entries
container_of(value_type) ==
    IF value_type \in {TYPE_LIST_ZIPLIST, TYPE_ZSET_ZIPLIST, TYPE_HASH_ZIPLIST}
    THEN "ziplist"
    ELSE IF value_type = TYPE_SET_INTSET THEN "intset"
    ELSE "listpack"

container_value(value_type, entries) ==
    IF value_type \in {TYPE_LIST_ZIPLIST, TYPE_SET_INTSET}
    THEN Value("list", entries)
    ELSE IF value_type \in {TYPE_ZSET_ZIPLIST, TYPE_ZSET_LISTPACK}
    THEN Value("zset", ZsetOfEntries(entries))
    ELSE IF value_type \in {TYPE_HASH_ZIPLIST, TYPE_HASH_LISTPACK}
    THEN Value("dict", HashOf(entries))
    ELSE Value("list", Strs(entries))

parse_container(name, d) == RunLoop(name, d, container_start(name, d))

read_container(f, p, value_type) ==
    Then(read_string_raw(f, p),
         LAMBDA r : Ok(container_value(value_type,
                                       parse_container(container_of(value_type), r.val)),
                       r.pos))

read_value(f, p, value_type) ==
    LET Sized(shape, r) == Then(r, LAMBDA x : Ok(Value(shape, x.val), x.pos))
        Text(r) == Ok(StrValue(r.val), r.pos)
        sized(size) ==
            IF value_type = TYPE_LIST
            THEN Sized("list", read_strings(f, size.pos, size.val, <<>>))
            ELSE IF value_type = TYPE_SET
            THEN Then(read_strings(f, size.pos, size.val, <<>>),
                      LAMBDA r : Ok(Value("list", Dedup(r.val)), r.pos))
            ELSE IF value_type = TYPE_HASH
            THEN Sized("dict", read_hash(f, size.pos, size.val, <<>>))
            ELSE Sized("zset", read_zset(f, size.pos, size.val,
                                         value_type = TYPE_ZSET_2, <<>>))
        zipmap(r) ==
            Ok(Value("dict", <<StrElem(TXT_ZIPMAP \o str(Len(r.val)) \o TXT_BYTES),
                               StrElem(<<>>)>>), r.pos)
        stream(size) ==
            Ok(StrValue(TXT_STREAM_WITH \o str(size.val) \o TXT_ELEMENTS), size.pos)
        \* unknown type: a text read, and a placeholder if that raises
        unknown(r) ==
            IF r.err # "ok"
            THEN Ok(StrValue(TXT_UNKNOWN_TYPE \o str(value_type) \o <<62>>), r.pos)
            ELSE Text(r)
    IN  IF value_type = TYPE_STRING
        THEN Then(read_string(f, p), Text)
        ELSE IF value_type \in {TYPE_LIST, TYPE_SET, TYPE_ZSET, TYPE_ZSET_2, TYPE_HASH}
        THEN Then(read_length(f, p), sized)
        ELSE IF value_type = TYPE_HASH_ZIPMAP
        THEN Then(read_string(f, p), zipmap)
        ELSE IF value_type \in {TYPE_LIST_ZIPLIST, TYPE_SET_INTSET, TYPE_ZSET_ZIPLIST,
                                TYPE_HASH_ZIPLIST, TYPE_HASH_LISTPACK,
                                TYPE_ZSET_LISTPACK, TYPE_SET_LISTPACK}
        THEN read_container(f, p, value_type)
        ELSE IF value_type \in {TYPE_LIST_QUICKLIST, TYPE_LIST_QUICKLIST_2}
        THEN Sized("list", read_quicklist(f, p))
        ELSE IF value_type \in {TYPE_STREAM_LISTPACKS, TYPE_STREAM_LISTPACKS_2,
                                TYPE_STREAM_LISTPACKS_3}
        THEN Then(read_length(f, p), stream)
        ELSE unknown(read_string(f, p))

\* [name, n]: the type name, and the tag n of "unknown_type_<n>" (else -1)
get_type_name(value_type) ==
    LET T(name) == [name |-> name, n |-> -1]
    IN  IF value_type = TYPE_STRING THEN T("string")
        ELSE IF value_type \in {TYPE_LIST, TYPE_LIST_ZIPLIST, TYPE_LIST_QUICKLIST,
                                TYPE_LIST_QUICKLIST_2} THEN T("list")
        ELSE IF value_type \in {TYPE_SET, TYPE_SET_INTSET, TYPE_SET_LISTPACK} THEN T("set")
        ELSE IF value_type \in {TYPE_ZSET, TYPE_ZSET_2, TYPE_ZSET_ZIPLIST,
                                TYPE_ZSET_LISTPACK} THEN T("zset")
        ELSE IF value_type \in {TYPE_HASH, TYPE_HASH_ZIPMAP, TYPE_HASH_ZIPLIST,
                                TYPE_HASH_LISTPACK} THEN T("hash")
        ELSE IF value_type \in {TYPE_STREAM_LISTPACKS, TYPE_STREAM_LISTPACKS_2,
                                TYPE_STREAM_LISTPACKS_3} THEN T("stream")
        ELSE [name |-> "unknown_type", n |-> value_type]

-----------------------------------------------------------------------------
(* Synthesis of container buffers, as the format is documented: the inputs *)
(* of the container runs.                                                  *)

MaxElems == 2
MaxStrLen == 2

\* n as w big-endian bytes
BEBytes(n, w) == [i \in 1..w |-> LEBytes(n, w)[w + 1 - i]]

RECURSIVE Concat(_)
Concat(ss) == IF Len(ss) = 0 THEN <<>> ELSE Head(ss) \o Concat(Tail(ss))

\* The sequences over S of length at most n
RECURSIVE SeqsUpTo(_, _)
SeqsUpTo(S, n) ==
    IF n = 0 THEN {<<>>}
    ELSE LET shorter == SeqsUpTo(S, n - 1)
         IN  shorter \cup {Append(q, x) : q \in {t \in shorter : Len(t) = n - 1}, x \in S}

\* ASCII texts: runs of 'a'
Texts == {[i \in 1..n |-> 97] : n \in 0..MaxStrLen}

\* An entry to synthesise: its encoding, and its text t or its integer n
StrItem(enc, t) == [enc |-> enc, t |-> t, n |-> 0]
IntItem(enc, n) == [enc |-> enc, t |-> <<>>, n |-> n]
IsIntItem(it) == it.enc \notin {"str6", "str14", "str32", "str7", "str12"}
ItemValue(it) == IF IsIntItem(it) THEN IntElem(str(it.n)) ELSE StrElem(it.t)

\* intset: the element width and the integers
IntsetInputs(n) ==
    {[size |-> 2, ints |-> q] : q \in SeqsUpTo({-1, 2, 30000}, n + 1)}
    \cup {[size |-> 4, ints |-> q] : q \in SeqsUpTo({-70000, 2, 70000}, n + 1)}
    \cup {[size |-> 8, ints |-> q] : q \in SeqsUpTo({-1, 2, 2147483647}, n + 1)}

\* <u32 element_size><u32 count>, then the elements little-endian signed
EncodeIntset(in) ==
    LEBytes(in.size, 4) \o LEBytes(Len(in.ints), 4)
    \o Concat([i \in 1..Len(in.ints) |-> LEBytes(in.ints[i], in.size)])

\* ziplist entries in each documented encoding
ZiplistItems ==
    {StrItem(e, t) : e \in {"str6", "str14", "str32"}, t \in Texts}
    \cup {IntItem("int16", n) : n \in {-1, 30000}}
    \cup {IntItem("int32", n) : n \in {-70000, 70000}}
    \cup {IntItem("int64", n) : n \in {-1, 2147483647}}
    \cup {IntItem("int24", n) : n \in {-8388608, 65536}}
    \cup {IntItem("int8", n) : n \in {-128, 127}}
    \cup {IntItem("imm4", n) : n \in {0, 12}}

\* The encoding byte(s) and the payload of a ziplist entry, without prevlen
ZiplistEntryBody(it) ==
    LET t == it.t
        n == it.n
    IN  CASE it.enc = "str6" -> <<Len(t)>> \o t
          [] it.enc = "str14" -> <<64 + (Len(t) \div 256), Len(t) % 256>> \o t
          [] it.enc = "str32" -> <<128>> \o BEBytes(Len(t), 4) \o t
          [] it.enc = "int16" -> <<192>> \o LEBytes(n, 2)
          [] it.enc = "int32" -> <<208>> \o LEBytes(n, 4)
          [] it.enc = "int64" -> <<224>> \o LEBytes(n, 8)
          [] it.enc = "int24" -> <<240>> \o LEBytes(n, 3)
          [] it.enc = "int8" -> <<254>> \o LEBytes(n, 1)
          [] it.enc = "imm4" -> <<240 + n + 1>>
          [] it.enc = "unknown" -> <<193>>

\* <prevlen> of an entry: the length of the entry before it, in 1 byte, or
\* 0xFE and 4 bytes from 254 on
ZiplistPrevlen(n) == IF n < 254 THEN <<n>> ELSE <<254>> \o LEBytes(n, 4)

RECURSIVE ZiplistEntries(_, _)
ZiplistEntries(items, prev) ==
    IF Len(items) = 0 THEN <<>>
    ELSE LET e == ZiplistPrevlen(prev) \o ZiplistEntryBody(Head(items))
         IN  e \o ZiplistEntries(Tail(items), Len(e))

\* <u32 zlbytes><u32 zltail><u16 zllen>, the entries, the 0xFF end byte; zllen
\* is given apart, to synthesise a header that claims more than is there
EncodeZiplist(items, zllen) ==
    LET body == ZiplistEntries(items, 0)
        lastLen == IF Len(items) = 0 THEN 0
                   ELSE Len(ZiplistPrevlen(0) \o ZiplistEntryBody(items[Len(items)]))
    IN  LEBytes(10 + Len(body) + 1, 4) \o LEBytes(10 + Len(body) - lastLen, 4)
        \o LEBytes(zllen, 2) \o body \o <<255>>

\* listpack entries in each documented encoding
ListpackItems ==
    {StrItem(e, t) : e \in {"str7", "str12", "str32"}, t \in Texts}
    \cup {IntItem("int6", n) : n \in {0, 31}}
    \cup {IntItem("int13", n) : n \in {-2048, -1, 2047}}
    \cup {IntItem("int16", n) : n \in {-1, 30000}}
    \cup {IntItem("int24", n) : n \in {-8388608, 65536}}
    \cup {IntItem("int32", n) : n \in {-70000, 70000}}
    \cup {IntItem("int64", n) : n \in {-1, 2147483647}}

\* A listpack entry: the encoding, the payload, one backlen byte
ListpackEntry(it) ==
    LET t == it.t
        n == it.n
        u == n % 4096
        body ==
            CASE it.enc = "str7" -> <<Len(t)>> \o t
              [] it.enc = "int6" -> <<192 + n>>
              [] it.enc = "int13" -> <<224 + (u \div 256), u % 256>>
              [] it.enc = "str12" -> <<128 + (Len(t) \div 256), Len(t) % 256>> \o t
              [] it.enc = "str32" -> <<240>> \o LEBytes(Len(t), 4) \o t
              [] it.enc = "int16" -> <<241>> \o LEBytes(n, 2)
              [] it.enc = "int24" -> <<242>> \o LEBytes(n, 3)
              [] it.enc = "int32" -> <<243>> \o LEBytes(n, 4)
              [] it.enc = "int64" -> <<244>> \o LEBytes(n, 8)
              [] it.enc = "unknown" -> <<245>>
    IN  body \o <<Len(body) % 128>>

\* <u32 total_bytes><u16 num_elements>, the entries, and the end byte of the
\* on-disk format when withEnd
EncodeListpack(items, num_elements, withEnd) ==
    LET body == Concat([i \in 1..Len(items) |-> ListpackEntry(items[i])])
        end == IF withEnd THEN <<255>> ELSE <<>>
    IN  LEBytes(6 + Len(body) + Len(end), 4) \o LEBytes(num_elements, 2)
        \o body \o end

\* The values a synthesised container holds, as its decoder is to return them
Expected(name, in) ==
    IF name = "intset"
    THEN [i \in 1..Len(in.ints) |-> StrElem(str(in.ints[i]))]
    ELSE [i \in 1..Len(in) |-> ItemValue(in[i])]

\* A container run's input: a buffer synthesised from values (faithful), such
\* a buffer whose header claims more elements than follow, or one cut short
Faithful(name, in, buf) ==
    [name |-> name, buf |-> buf,
     cin |-> [faithful |-> TRUE, broken |-> FALSE, values |-> Expected(name, in)]]

Corrupt(name, buf) ==
    [name |-> name, buf |-> buf,
     cin |-> [faithful |-> FALSE, broken |-> FALSE, values |-> <<>>]]

\* An entry whose encoding byte is none of the documented ones (0xC1 in a
\* ziplist, 0xF5 in a listpack), and the entries that may follow it
UnknownItem == StrItem("unknown", <<>>)
ZiplistAfter == {<<>>, <<StrItem("str6", <<97>>)>>, <<IntItem("imm4", 0)>>}
ListpackAfter == {<<>>, <<StrItem("str7", <<97>>)>>, <<IntItem("int6", 0)>>}

\* A container with an entry of unknown encoding after the entries pre
Broken(name, pre, buf) ==
    [name |-> name, buf |-> buf,
     cin |-> [faithful |-> FALSE, broken |-> TRUE, values |-> Expected(name, pre)]]

Prefixes(b) == {SubSeq(b, 1, k) : k \in 0..(Len(b) - 1)}

\* An intset whose header claims one element more than follow
IntsetOver(in) ==
    LEBytes(in.size, 4) \o LEBytes(Len(in.ints) + 1, 4)
    \o SubSeq(EncodeIntset(in), 9, Len(EncodeIntset(in)))

-----------------------------------------------------------------------------
(* The container runs: a decoder applied to a buffer, one loop iteration   *)
(* per step.                                                               *)

ParseIdle ==
    /\ file = <<>>
    /\ simple_format = FALSE
    /\ lpc = "off"
    /\ fpos = 0
    /\ data = <<>>
    /\ aux_data = <<>>
    /\ current_db = 0
    /\ version_str = <<>>
    /\ expiry = 0
    /\ idle = 0
    /\ freq = 0
    /\ src = <<>>
    /\ last = 0
    /\ hist = <<>>

\* A decoder is given the buffer of the run r
StartRun(r) ==
    /\ cname = r.name
    /\ cbuf = r.buf
    /\ cin = r.cin
    /\ cst = container_start(r.name, r.buf)
    /\ cpc = IF container_start(r.name, r.buf).done THEN "done" ELSE "loop"

\* No codec call under way
NoCall == [op |-> "none", pc |-> "off", buf |-> <<>>, value_type |-> 0,
           in |-> <<>>, ret |-> [err |-> "none", val |-> <<>>, pos |-> 0]]

\* The runs of each decoder, on containers of up to MaxElems entries (one
\* more for an intset, whose decoder has no entry encodings to vary)
ContainerInit ==
    /\ ParseIdle
    /\ call = NoCall
    /\ \/ \E in \in IntsetInputs(MaxElems) :
            \/ StartRun(Faithful("intset", in, EncodeIntset(in)))
            \/ StartRun(Corrupt("intset", IntsetOver(in)))
            \/ \E b \in Prefixes(EncodeIntset(in)) : StartRun(Corrupt("intset", b))
       \/ \E in \in SeqsUpTo(ZiplistItems, MaxElems) :
            \/ StartRun(Faithful("ziplist", in, EncodeZiplist(in, Len(in))))
            \/ \E c \in {MaxElems + 1, ZLLEN_UNKNOWN} :
                    StartRun(Corrupt("ziplist", EncodeZiplist(in, c)))
            \/ \E b \in Prefixes(EncodeZiplist(in, Len(in))) :
                    StartRun(Corrupt("ziplist", b))
       \/ \E pre \in SeqsUpTo({it \in ZiplistItems : it.enc # "str32"}, MaxElems - 1),
             post \in ZiplistAfter :
            StartRun(Broken("ziplist", pre,
                            EncodeZiplist(pre \o <<UnknownItem>> \o post,
                                          Len(pre) + 1 + Len(post))))
       \/ \E in \in SeqsUpTo(ListpackItems, MaxElems) :
            \/ \E e \in BOOLEAN :
                    StartRun(Faithful("listpack", in, EncodeListpack(in, Len(in), e)))
            \/ \E e \in BOOLEAN :
                    StartRun(Corrupt("listpack", EncodeListpack(in, MaxElems + 1, e)))
            \/ \E b \in Prefixes(EncodeListpack(in, Len(in), TRUE)) :
                    StartRun(Corrupt("listpack", b))
       \/ \E pre \in SeqsUpTo(ListpackItems, MaxElems - 1), post \in ListpackAfter :
            \E e \in BOOLEAN :
                StartRun(Broken("listpack", pre,
                                EncodeListpack(pre \o <<UnknownItem>> \o post,
                                               Len(pre) + 1 + Len(post), e)))

ContainerStep(name) ==
    /\ cpc = "loop"
    /\ cname = name
    /\ cst' = container_step(name, cbuf, cst)
    /\ cpc' = IF cst'.done THEN "done" ELSE "loop"
    /\ UNCHANGED <<cname, cbuf, cin, call>>
    /\ UNCHANGED parseVars

IntsetStep == ContainerStep("intset")
ZiplistStep == ContainerStep("ziplist")
ListpackStep == ContainerStep("listpack")

ContainerNext == IntsetStep \/ ZiplistStep \/ ListpackStep

ContainerSpec == ContainerInit /\ [][ContainerNext]_vars

-----------------------------------------------------------------------------
(* Claims about the container decoders, under ContainerSpec.               *)

\* C7: no container decoder uses an index or a slice bound beyond the length
\* of the buffer it was given, and its position cursor never exceeds that
\* length, whatever the buffer holds.
C7_NoOverRead ==
    /\ cst.hi <= Len(cbuf)
    /\ cst.pos <= Len(cbuf)

\* C8: decoding the intset synthesised from integers of element size 2, 4 or 8
\* returns those integers as decimal strings, in on-disk order.
C8_IntsetRoundTrip ==
    (cname = "intset" /\ cpc = "done" /\ cin.faithful)
        => cst.result = cin.values

\* C9: decoding the ziplist synthesised from values in the documented entry
\* encodings returns the same values in the same order.
C9_ZiplistRoundTrip ==
    (cname = "ziplist" /\ cpc = "done" /\ cin.faithful)
        => cst.result = cin.values

\* C10: decoding the listpack synthesised from values in the documented entry
\* encodings, each entry with one backlen byte, returns the same values in the
\* same order.
C10_ListpackRoundTrip ==
    (cname = "listpack" /\ cpc = "done" /\ cin.faithful)
        => cst.result = cin.values

\* C12: in parse_ziplist the first entry of unknown encoding ends the
\* traversal: the result is the elements decoded before it, and no byte
\* after it is read as an entry.
C12_ZiplistStopsAtUnknown ==
    (cname = "ziplist" /\ cpc = "done" /\ cin.broken)
        => cst.result = cin.values

\* C13: in parse_listpack the first entry whose first byte is no documented
\* encoding ends the traversal: the result is the elements decoded before
\* that byte, and no later byte is read as an entry.
C13_ListpackStopsAtUnknown ==
    (cname = "listpack" /\ cpc = "done" /\ cin.broken)
        => cst.result = cin.values

\* A listpack of a negative 13-bit integer and a non-empty string, decoded
C10_Witness ==
    /\ cname = "listpack"
    /\ cpc = "done"
    /\ cin.faithful
    /\ cst.i = MaxElems
    /\ \E i \in 1..Len(cin.values) : cin.values[i] = IntElem(<<45, 49>>)
    /\ \E i \in 1..Len(cin.values) :
        ~cin.values[i].isInt /\ Len(cin.values[i].s) > 0
    /\ cst.result = cin.values

-----------------------------------------------------------------------------
(* RecordStream and SnapshotAssembler: RDBParser.parse.                    *)

\* A pending expiry, idle or freq: None, or a number
Unset == [set |-> FALSE, v |-> 0]
Pending(v) == [set |-> TRUE, v |-> v]

EmptyMap == [k \in {} |-> 0]
Put(m, k, v) == [x \in DOMAIN m \cup {k} |-> IF x = k THEN v ELSE m[x]]

NoValue == Value("none", <<>>)
NoType == [name |-> "", n |-> -1]

\* self.data[key] in simple format: the value alone
SimpleEntry(value) ==
    [form |-> "simple", value |-> value, type |-> NoType, error |-> "",
     expiry_ms |-> Unset, idle |-> Unset, freq |-> Unset]

\* self.data[key] in full format: value and type, expiry_ms (with
\* expiry_date) `if expiry`, idle and freq when not None.
\* datetime.fromtimestamp accepts every expiry the model's integers hold
FullEntry(value, value_type, exp, idl, frq) ==
    [form |-> "full", value |-> value, type |-> get_type_name(value_type),
     error |-> "",
     expiry_ms |-> IF exp.set /\ exp.v # 0 THEN exp ELSE Unset,
     idle |-> idl, freq |-> frq]

\* self.data[key] = {"error": str(e), "type": ...}
ErrorEntry(e, value_type) ==
    [form |-> "error", value |-> NoValue, type |-> get_type_name(value_type),
     error |-> e, expiry_ms |-> Unset, idle |-> Unset, freq |-> Unset]

NoEntryStored == SimpleEntry(NoValue)

\* `if not key or key.startswith('<unknown') or ...`: the key is skipped
invalid_key(key) ==
    \/ Len(key) = 0
    \/ startswith(key, TXT_UNKNOWN)
    \/ startswith(key, TXT_BINARY)
    \/ startswith(key, TXT_PARSE_ERROR)
    \/ startswith(key, TXT_INVALID)

\* The record loop's handlers in a parser that would have `except EOFError`
\* alone
outer_except_eof_only(e) == IF e = "EOF" THEN "done" ELSE "raised"

\* The record loop's handlers in a parser that would go on with the loop
outer_except_continue(e) == "loop"

\* Where an exception raised in the record loop's try goes: `except EOFError`
\* and `except Exception` both break, and parse() returns
outer_except(e) == IF e \in {"EOF", "Exception"} THEN "done" ELSE "raised"

\* `except Exception` around the key read: continue
key_except(e) == IF e \in {"EOF", "Exception"} THEN "loop" ELSE "raised"

\* the bare `except: pass` around the skipped value: continue
skip_except(e) == "loop"

\* `except Exception` around the value read: the error is recorded, and the
\* loop goes on
value_except(e) == IF e \in {"EOF", "Exception"} THEN "loop" ELSE "raised"

\* self.data[key] = entry, kept first by a parser that would keep the first
\* record of a key
store_first(d, key, entry) == IF key \in DOMAIN d THEN d ELSE Put(d, key, entry)

\* self.data[key] = entry
store(d, key, entry) == Put(d, key, entry)

\* What the `except Exception` around the value read stores, in a parser
\* that would record the error in both formats
store_value_error_always(d, key, e, value_type, simple) ==
    store(d, key, ErrorEntry(e, value_type))

\* What the `except Exception` around the value read stores
store_value_error(d, key, e, value_type, simple) ==
    IF simple THEN d ELSE store(d, key, ErrorEntry(e, value_type))

\* The entry of a decoded value
new_entry(value, value_type, simple, exp, idl, frq) ==
    IF simple THEN SimpleEntry(value)
    ELSE FullEntry(value, value_type, exp, idl, frq)

MAGIC == <<82, 69, 68, 73, 83>>

\* History: the iteration's opcode (-1 when none was read), its outcome, the
\* key or aux name it read, whether it stored an entry, and the entry
Log(op, outcome, key, stored, entry) ==
    LET it == [op |-> op, outcome |-> outcome, key |-> key, stored |-> stored,
               entry |-> entry]
    IN  /\ last' = it
        /\ hist' = Append(hist, it)

NoLog == [op |-> -1, outcome |-> "none", key |-> <<>>, stored |-> FALSE,
          entry |-> NoEntryStored]

\* The header: magic and version are read outside the loop's try, so that
\* EOFError, the ValueError of a bad magic and the UnicodeDecodeError of a
\* non-ASCII version leave parse()
ReadHeader ==
    LET m == read_bytes(file, 0, 5)
        v == read_bytes(file, m.pos, 4)
        ok == /\ m.err = "ok"
              /\ m.val = MAGIC
              /\ v.err = "ok"
              /\ \A i \in 1..4 : v.val[i] < 128
    IN  /\ lpc = "header"
        /\ lpc' = IF ok THEN "loop" ELSE "raised"
        /\ fpos' = IF m.err # "ok" \/ m.val # MAGIC THEN m.pos ELSE v.pos
        /\ version_str' = IF ok THEN v.val ELSE version_str
        /\ UNCHANGED <<file, simple_format, data, aux_data, current_db, expiry,
                       idle, freq, src, last, hist>>
        /\ UNCHANGED contVars

\* The opcode read at the top of an iteration
Opcode == read_byte(file, fpos)

\* An iteration on a record of opcode op that is no value type: r is what
\* its reads gave, and the iteration leaves fixed the variables named
MetaRecord(op, r, fixed) ==
    /\ lpc = "loop"
    /\ Opcode.err = "ok"
    /\ Opcode.val = op
    /\ fpos' = r.pos
    /\ lpc' = IF r.err = "ok" THEN "loop" ELSE outer_except(r.err)
    /\ Log(op, IF r.err = "ok" THEN "meta" ELSE "stream_error", <<>>, FALSE,
           NoEntryStored)
    /\ UNCHANGED fixed
    /\ UNCHANGED <<file, simple_format, version_str, data, src>>
    /\ UNCHANGED contVars

\* read_byte raises EOFError at the top of an iteration
OpcodeFails ==
    /\ lpc = "loop"
    /\ Opcode.err # "ok"
    /\ fpos' = Opcode.pos
    /\ lpc' = outer_except(Opcode.err)
    /\ Log(-1, "stream_error", <<>>, FALSE, NoEntryStored)
    /\ UNCHANGED <<file, simple_format, version_str, data, aux_data, current_db,
                   expiry, idle, freq, src>>
    /\ UNCHANGED contVars

\* OPCODE_EOF: the checksum is read if it is there, and the loop is left
OpEOF ==
    /\ lpc = "loop"
    /\ Opcode.err = "ok"
    /\ Opcode.val = OPCODE_EOF
    /\ fpos' = read_bytes(file, Opcode.pos, 8).pos
    /\ lpc' = "done"
    /\ Log(OPCODE_EOF, "eof", <<>>, FALSE, NoEntryStored)
    /\ UNCHANGED <<file, simple_format, version_str, data, aux_data, current_db,
                   expiry, idle, freq, src>>
    /\ UNCHANGED contVars

OpSelectDB ==
    LET r == read_length(file, Opcode.pos)
    IN  /\ MetaRecord(OPCODE_SELECTDB, r, <<aux_data, expiry, idle, freq>>)
        /\ current_db' = IF r.err = "ok" THEN r.val ELSE current_db

\* The two reads of OPCODE_AUX: val is [key, value]
read_aux(f, p) ==
    Then(read_string(f, p), LAMBDA k :
    Then(read_string(f, k.pos), LAMBDA v :
         Ok([key |-> k.val, value |-> v.val], v.pos)))

AuxRecord(r) ==
    /\ lpc = "loop"
    /\ Opcode.err = "ok"
    /\ Opcode.val = OPCODE_AUX
    /\ fpos' = r.pos
    /\ lpc' = IF r.err = "ok" THEN "loop" ELSE outer_except(r.err)
    /\ aux_data' = IF r.err = "ok" THEN Put(aux_data, r.val.key, r.val.value)
                   ELSE aux_data
    /\ IF r.err = "ok"
       THEN Log(OPCODE_AUX, "aux", r.val.key, TRUE,
                SimpleEntry(StrValue(r.val.value)))
       ELSE Log(OPCODE_AUX, "stream_error", <<>>, FALSE, NoEntryStored)
    /\ UNCHANGED <<file, simple_format, version_str, data, current_db, expiry,
                   idle, freq, src>>
    /\ UNCHANGED contVars

OpAux == AuxRecord(read_aux(file, Opcode.pos))

OpResizeDB ==
    LET db_size == read_length(file, Opcode.pos)
        expires_size == read_length(file, db_size.pos)
    IN  MetaRecord(OPCODE_RESIZEDB,
                   IF db_size.err # "ok" THEN db_size ELSE expires_size,
                   <<aux_data, current_db, expiry, idle, freq>>)

OpExpireTimeMs ==
    LET r == read_unsigned_long(file, Opcode.pos)
    IN  /\ MetaRecord(OPCODE_EXPIRETIME_MS, r, <<aux_data, current_db, idle, freq>>)
        /\ expiry' = IF r.err = "ok" THEN Pending(r.val) ELSE expiry

OpExpireTime ==
    LET r == read_unsigned_int(file, Opcode.pos)
    IN  /\ MetaRecord(OPCODE_EXPIRETIME, r, <<aux_data, current_db, idle, freq>>)
        /\ expiry' = IF r.err = "ok" THEN Pending(r.val * 1000) ELSE expiry

OpIdle ==
    LET r == read_length(file, Opcode.pos)
    IN  /\ MetaRecord(OPCODE_IDLE, r, <<aux_data, current_db, expiry, freq>>)
        /\ idle' = IF r.err = "ok" THEN Pending(r.val) ELSE idle

OpFreq ==
    LET r == read_byte(file, Opcode.pos)
    IN  /\ MetaRecord(OPCODE_FREQ, r, <<aux_data, current_db, expiry, idle>>)
        /\ freq' = IF r.err = "ok" THEN Pending(r.val) ELSE freq

\* The iteration is on a value-type record: any opcode below 0xF8
IsValueType(op) == op < OPCODE_IDLE

ValueOpcode ==
    /\ lpc = "loop"
    /\ Opcode.err = "ok"
    /\ IsValueType(Opcode.val)

\* The reads of a value-type record: the key, and the value after it
KeyRead == read_string(file, Opcode.pos)
ValueRead == read_value(file, KeyRead.pos, Opcode.val)

\* read_string raises on the key: "skipping entry", continue
KeyFails(value_type, k) ==
    /\ k.err # "ok"
    /\ fpos' = k.pos
    /\ lpc' = key_except(k.err)
    /\ Log(value_type, "key_error", <<>>, FALSE, NoEntryStored)
    /\ UNCHANGED <<file, simple_format, version_str, data, aux_data, current_db,
                   expiry, idle, freq, src>>
    /\ UNCHANGED contVars

\* The key is invalid: the value is read to skip it, whatever that read
\* raises is dropped, continue
Skipped(value_type, k, v) ==
    /\ k.err = "ok"
    /\ invalid_key(k.val)
    /\ fpos' = v.pos
    /\ lpc' = IF v.err = "ok" THEN "loop" ELSE skip_except(v.err)
    /\ Log(value_type, IF v.err = "ok" THEN "skipped" ELSE "skipped_fail",
           k.val, FALSE, NoEntryStored)
    /\ UNCHANGED <<file, simple_format, version_str, data, aux_data, current_db,
                   expiry, idle, freq, src>>
    /\ UNCHANGED contVars

\* The value is decoded: the entry is stored and the metadata is reset
Stored(value_type, k, v) ==
    /\ k.err = "ok"
    /\ ~invalid_key(k.val)
    /\ v.err = "ok"
    /\ fpos' = v.pos
    /\ lpc' = "loop"
    /\ data' = store(data, k.val,
                     new_entry(v.val, value_type, simple_format, expiry, idle, freq))
    /\ expiry' = Unset
    /\ idle' = Unset
    /\ freq' = Unset
    /\ Log(value_type, "stored", k.val, TRUE,
           new_entry(v.val, value_type, simple_format, expiry, idle, freq))
    /\ UNCHANGED <<file, simple_format, version_str, aux_data, current_db, src>>
    /\ UNCHANGED contVars

\* The value read raises: the error is recorded in full format, the loop
\* goes on
Fails(value_type, k, v) ==
    /\ k.err = "ok"
    /\ ~invalid_key(k.val)
    /\ v.err # "ok"
    /\ fpos' = v.pos
    /\ lpc' = value_except(v.err)
    /\ data' = store_value_error(data, k.val, v.err, value_type, simple_format)
    /\ Log(value_type, "value_error", k.val, ~simple_format,
           IF simple_format THEN NoEntryStored ELSE ErrorEntry(v.err, value_type))
    /\ UNCHANGED <<file, simple_format, version_str, aux_data, current_db,
                   expiry, idle, freq, src>>
    /\ UNCHANGED contVars

ValueKeyFails == ValueOpcode /\ KeyFails(Opcode.val, KeyRead)
ValueSkipped == ValueOpcode /\ Skipped(Opcode.val, KeyRead, ValueRead)
ValueStored == ValueOpcode /\ Stored(Opcode.val, KeyRead, ValueRead)
ValueFails == ValueOpcode /\ Fails(Opcode.val, KeyRead, ValueRead)

-----------------------------------------------------------------------------
(* The input files: a header, at most MaxRecs records, and the end: the    *)
(* EOF opcode with or without its checksum, nothing, or the last record    *)
(* cut short.                                                              *)

MaxRecs == 2

\* A text with its 6-bit length prefix
EncText(t) == <<Len(t)>> \o t

\* A record to synthesise: its bytes, whether it is a value-type record, the
\* key it carries, and whether it is well-formed
Rec(isValue, key, wf, bytes) ==
    [isValue |-> isValue, key |-> key, wf |-> wf, bytes |-> bytes]

MetaRecords ==
    { Rec(FALSE, <<>>, TRUE, <<OPCODE_EXPIRETIME_MS>> \o LEBytes(5, 8)),
      \* an expiry of 0 ms
      Rec(FALSE, <<>>, TRUE, <<OPCODE_EXPIRETIME_MS>> \o LEBytes(0, 8)),
      Rec(FALSE, <<>>, TRUE, <<OPCODE_EXPIRETIME>> \o LEBytes(1, 4)),
      Rec(FALSE, <<>>, TRUE, <<OPCODE_IDLE, 2>>),
      Rec(FALSE, <<>>, TRUE, <<OPCODE_FREQ, 3>>),
      Rec(FALSE, <<>>, TRUE, <<OPCODE_AUX>> \o EncText(<<97>>) \o EncText(<<120>>)),
      Rec(FALSE, <<>>, TRUE, <<OPCODE_AUX>> \o EncText(<<97>>) \o EncText(<<121>>)),
      Rec(FALSE, <<>>, TRUE, <<OPCODE_SELECTDB, 1>>),
      \* a database number that is a special encoding
      Rec(FALSE, <<>>, FALSE, <<OPCODE_SELECTDB, 192>>),
      Rec(FALSE, <<>>, TRUE, <<OPCODE_RESIZEDB, 1, 0>>) }

ValueRecords ==
    { \* string "a" = "x"
      Rec(TRUE, <<97>>, TRUE, <<TYPE_STRING>> \o EncText(<<97>>) \o EncText(<<120>>)),
      \* list "a" = ["y"]
      Rec(TRUE, <<97>>, TRUE, <<TYPE_LIST>> \o EncText(<<97>>) \o <<1>> \o EncText(<<121>>)),
      \* string "" = "x"
      Rec(TRUE, <<>>, TRUE, <<TYPE_STRING>> \o EncText(<<>>) \o EncText(<<120>>)),
      \* string "<a" = "x"
      Rec(TRUE, <<60, 97>>, TRUE, <<TYPE_STRING>> \o EncText(<<60, 97>>) \o EncText(<<120>>)),
      \* a key of the undefined special encoding 4, then the string "x"
      Rec(TRUE, <<>>, FALSE, <<TYPE_STRING, 196>> \o EncText(<<120>>)),
      \* list "a" whose length is a special encoding
      Rec(TRUE, <<97>>, FALSE, <<TYPE_LIST>> \o EncText(<<97>>) \o <<192>>),
      \* a compressed key whose compressed length is a special encoding
      Rec(TRUE, <<>>, FALSE, <<TYPE_STRING, 195, 192>>),
      \* a key of the special encoding 4, then such a compressed string
      Rec(TRUE, <<>>, FALSE, <<TYPE_STRING, 196, 195, 192>>) }

Catalog == MetaRecords \cup ValueRecords

HEADER == MAGIC \o <<48, 48, 49, 49>>

BadHeaders ==
    { SubSeq(HEADER, 1, 3), SubSeq(HEADER, 1, 7),
      <<82, 69, 68, 73, 88, 48, 48, 49, 49>>,
      MAGIC \o <<48, 48, 49, 200>> }

EndBytes(end) ==
    IF end = "eof" THEN <<OPCODE_EOF>>
    ELSE IF end = "eof_short" THEN <<OPCODE_EOF, 0, 0, 0>>
    ELSE IF end = "eof_checksum" THEN <<OPCODE_EOF, 0, 0, 0, 0, 0, 0, 0, 0>>
    ELSE <<>>

RecBytes(recs) == Concat([i \in 1..Len(recs) |-> recs[i].bytes])

\* The history of an input: whether its header is valid, its complete
\* records, and how it ends
Source(valid, recs, end) == [valid |-> valid, recs |-> recs, end |-> end]

Ends == {"none", "eof", "eof_short", "eof_checksum"}

RecordSeqs == SeqsUpTo(Catalog, MaxRecs)

\* The file of the records q whose last record is cut after k bytes
CutFile(q, k) ==
    HEADER \o RecBytes(SubSeq(q, 1, Len(q) - 1)) \o SubSeq(q[Len(q)].bytes, 1, k)

ContainerIdle ==
    /\ cname = "none"
    /\ cbuf = <<>>
    /\ cin = <<>>
    /\ cpc = "off"
    /\ cst = 0

Init ==
    /\ ContainerIdle
    /\ call = NoCall
    /\ \/ \E h \in BadHeaders :
            /\ file = h
            /\ src = Source(FALSE, <<>>, "none")
       \/ \E q \in RecordSeqs, e \in Ends :
            /\ file = HEADER \o RecBytes(q) \o EndBytes(e)
            /\ src = Source(TRUE, q, e)
       \/ \E q \in RecordSeqs \ {<<>>} :
            \E k \in 1..(Len(q[Len(q)].bytes) - 1) :
                /\ file = CutFile(q, k)
                /\ src = Source(TRUE, SubSeq(q, 1, Len(q) - 1), "cut")
    /\ simple_format \in BOOLEAN
    /\ lpc = "header"
    /\ fpos = 0
    /\ data = EmptyMap
    /\ aux_data = EmptyMap
    /\ current_db = 0
    /\ version_str = <<>>
    /\ expiry = Unset
    /\ idle = Unset
    /\ freq = Unset
    /\ last = NoLog
    /\ hist = <<>>

Next ==
    \/ ReadHeader
    \/ OpcodeFails
    \/ OpEOF
    \/ OpSelectDB
    \/ OpAux
    \/ OpResizeDB
    \/ OpExpireTimeMs
    \/ OpExpireTime
    \/ OpIdle
    \/ OpFreq
    \/ ValueKeyFails
    \/ ValueSkipped
    \/ ValueStored
    \/ ValueFails

Spec == Init /\ [][Next]_vars

-----------------------------------------------------------------------------
(* Properties of the record loop.                                          *)

\* The last iteration was on a value-type record
ValueOutcomes == {"key_error", "skipped", "skipped_fail", "stored", "value_error"}

\* The last iteration read a key
KeyOutcomes == {"skipped", "skipped_fail", "stored", "value_error"}

\* The input is a valid header, well-formed records, and a well-formed EOF
WellFormedInput ==
    /\ src.valid
    /\ src.end \in {"eof", "eof_checksum"}
    /\ \A i \in 1..Len(src.recs) : src.recs[i].wf

\* The iterations of hist that carried key k into the output's reach: those
\* whose key read gave k and was accepted
Carried(k) ==
    {i \in 1..Len(hist) : hist[i].key = k /\ hist[i].outcome \in {"stored", "value_error"}}

\* Those that stored an entry under k
StoredUnder(k) == {i \in Carried(k) : hist[i].stored}

\* The iterations on an aux field named n
AuxOf(n) == {i \in 1..Len(hist) : hist[i].outcome = "aux" /\ hist[i].key = n}

SetMax(S) == CHOOSE x \in S : \A y \in S : y <= x

\* C1: after the iteration on any value-type record, the pending expiry,
\* idle and freq are all unset, whatever the outcome of the record.
C1_MetadataCleared ==
    last.outcome \in ValueOutcomes
        => /\ expiry = Unset
           /\ idle = Unset
           /\ freq = Unset

\* C2: when a valid header is followed by well-formed value-type records and
\* a well-formed EOF opcode, parse() returns as many keys as there are
\* distinct keys among those records.
C2_KeyCount ==
    (lpc = "done" /\ WellFormedInput)
        => Cardinality(DOMAIN data)
             = Cardinality({src.recs[i].key :
                              i \in {j \in 1..Len(src.recs) : src.recs[j].isValue}})

\* C3: after a valid header no exception leaves parse(), whatever bytes
\* follow and wherever they are cut: the loop is left only by returning.
C3_NoEscape ==
    src.valid => lpc \in {"header", "loop", "done"}

\* A file cut inside a key and a file whose record raises in the loop's own
\* reads have been parsed to the return
C3_Witness ==
    /\ src.valid
    /\ lpc = "done"
    /\ \/ /\ src.end = "cut"
          /\ \E i \in 1..Len(hist) : hist[i].outcome = "key_error"
       \/ /\ last.outcome = "stream_error"
          /\ last.op = OPCODE_SELECTDB
          /\ fpos < Len(file)

C6_KeySanitation ==
    (last.outcome \in KeyOutcomes /\ startswith(last.key, <<60>>))
        => /\ ~last.stored
           /\ last.outcome \in {"skipped", "skipped_fail"}
           /\ last.outcome = "skipped_fail" => lpc = "done"

\* The records before the n-th are well-formed, so that iteration i of the
\* loop is on record i of the file
Aligned(n) ==
    /\ src.valid
    /\ n = Len(hist)
    /\ n <= Len(src.recs)
    /\ \A i \in 1..n : src.recs[i].wf

\* The metadata records of opcodes ops between the value-type record before
\* the n-th record and the n-th record
MetaSince(n, ops) ==
    {j \in 1..(n - 1) :
        /\ src.recs[j].bytes[1] \in ops
        /\ \A k \in j..(n - 1) : ~src.recs[k].isValue}

\* What a metadata record sets, as the format is documented
MetaValue(rec) ==
    IF rec.bytes[1] = OPCODE_EXPIRETIME_MS THEN LEUnsigned(Tail(rec.bytes))
    ELSE IF rec.bytes[1] = OPCODE_EXPIRETIME THEN LEUnsigned(Tail(rec.bytes)) * 1000
    ELSE rec.bytes[2]

MetaExpected(n, ops) ==
    IF MetaSince(n, ops) = {} THEN Unset
    ELSE Pending(MetaValue(src.recs[SetMax(MetaSince(n, ops))]))

\* C14: in Full mode the entry stored for a decoded value-type record
\* carries expiry_ms, idle and freq for exactly those set by an opcode since
\* the value-type record before it, each with the value of the last such
\* opcode, a value of 0 counting as set.
C14_MetadataAttached ==
    (~simple_format /\ last.outcome = "stored" /\ Aligned(Len(hist)))
        => /\ data[last.key].expiry_ms
                = MetaExpected(Len(hist), {OPCODE_EXPIRETIME_MS, OPCODE_EXPIRETIME})
           /\ data[last.key].idle = MetaExpected(Len(hist), {OPCODE_IDLE})
           /\ data[last.key].freq = MetaExpected(Len(hist), {OPCODE_FREQ})

\* C16: when a record of the outer stream cannot be read (the opcode byte,
\* or an aux, select-db, resize, expiry, idle or freq record), the loop stops
\* and the keys, the aux fields and the db index are those assembled before
\* the failing record.
C16_StreamErrorFrame ==
    [][(hist' # hist /\ last'.outcome = "stream_error")
        => /\ lpc' = "done"
           /\ data' = data
           /\ aux_data' = aux_data
           /\ current_db' = current_db]_vars

\* An aux record could not be read after a key, an aux field or a db index
\* had been assembled, and the parse has ended
C16_Witness ==
    /\ last.outcome = "stream_error"
    /\ last.op \in {OPCODE_AUX, OPCODE_SELECTDB, OPCODE_EXPIRETIME_MS}
    /\ lpc = "done"
    /\ \/ DOMAIN data # {}
       \/ DOMAIN aux_data # {}
       \/ current_db # 0

-----------------------------------------------------------------------------
(* The loops of the program: the record loop of parse() on a file, and the *)
(* loop of a container decoder on a buffer.                                *)

LoopsInit == Init \/ ContainerInit

LoopsNext == Next \/ ContainerNext

LoopsSpec == LoopsInit /\ [][LoopsNext]_vars

\* C19: parse() terminates on every finite input, by a measure that every
\* iteration decreases: an iteration of the record loop leaves the cursor of
\* the file further on or leaves the loop, and an iteration of the loop of
\* parse_ziplist or parse_listpack leaves pos larger or breaks.
C19_LoopsProgress ==
    [][/\ hist' # hist
            => \/ fpos' > fpos /\ fpos' <= Len(file)
               \/ lpc' # "loop"
       /\ (cst' # cst /\ cname \in {"ziplist", "listpack"})
            => \/ cst'.pos > cst.pos
               \/ cst'.done]_vars

\* The record loop has gone on after an unreadable key, a skipped key and a
\* recorded value error, up to its end
C19_Witness ==
    /\ lpc = "done"
    /\ Len(hist) > MaxRecs
    /\ \E i \in 1..(Len(hist) - 1) :
            hist[i].outcome \in {"key_error", "skipped", "skipped_fail", "value_error"}

-----------------------------------------------------------------------------
(* Codec calls: read_length_with_encoding and read_value applied to a      *)
(* buffer, the cursor at its first byte.                                   *)

StartCall(op, value_type, buf, in) ==
    call = [NoCall EXCEPT !.op = op, !.pc = "ready", !.buf = buf,
                          !.value_type = value_type, !.in = in]

\* Length encodings: the wide ones with each payload byte small enough for
\* the value to be held whichever end it is read from (a 64-bit payload is
\* four such bytes, then four zero bytes), the short ones, a special
\* encoding and payloads that are cut
LengthInputs ==
    {<<128>> \o b : b \in [1..4 -> {0, 1, 2}]}
    \cup {<<129>> \o b \o <<0, 0, 0, 0>> : b \in [1..4 -> {0, 1}]}
    \cup {<<5>>, <<65, 2>>, <<192>>, <<130, 1, 0, 0, 0>>, <<128, 0>>, <<129, 1, 0, 0, 0>>, <<>>}

\* A raw string: the bytes after their 6-bit or 14-bit length
EncRaw(b) ==
    IF Len(b) < 64 THEN <<Len(b)>> \o b
    ELSE <<64 + (Len(b) \div 256), Len(b) % 256>> \o b

\* A plain set: the number of members, then each member as a text
EncodeSet(members) ==
    <<Len(members)>> \o Concat([i \in 1..Len(members) |-> EncText(members[i])])

\* The (member, score) pairs of a sorted set to synthesise: a member is a
\* text or an integer entry, a score an integer entry or a string entry
\* holding the decimal text of the score ("2", "1.5")
ZsetPair(m, sc) == [member |-> m, score |-> sc]
ZiplistZsetPairs ==
    {ZsetPair(m, sc) :
        m \in {StrItem("str6", <<97>>), IntItem("int8", 127)},
        sc \in {IntItem("imm4", 0), IntItem("int16", -1),
                StrItem("str6", <<50>>), StrItem("str6", <<49, 46, 53>>)}}
ListpackZsetPairs ==
    {ZsetPair(m, sc) :
        m \in {StrItem("str7", <<97>>), IntItem("int6", 31)},
        sc \in {IntItem("int6", 0), IntItem("int16", -1),
                StrItem("str7", <<50>>), StrItem("str7", <<49, 46, 53>>)}}

\* The entries of the pairs, member and score in turn
RECURSIVE PairItems(_)
PairItems(pairs) ==
    IF Len(pairs) = 0 THEN <<>>
    ELSE <<Head(pairs).member, Head(pairs).score>> \o PairItems(Tail(pairs))

\* The sorted set the pairs denote: each member's text and each score's
\* number, in order
RECURSIVE ZsetExpected(_)
ZsetExpected(pairs) ==
    IF Len(pairs) = 0 THEN <<>>
    ELSE <<StrElem(ElemStr(ItemValue(Head(pairs).member))),
           Score(ElemStr(ItemValue(Head(pairs).score)))>>
         \o ZsetExpected(Tail(pairs))

\* The segments of a quicklist to synthesise: each a sequence of entries
ZiplistSegments ==
    SeqsUpTo({StrItem("str6", <<97>>), IntItem("int16", -1)}, MaxElems)
ListpackSegments ==
    SeqsUpTo({StrItem("str7", <<97>>), IntItem("int16", -1)}, MaxElems)

\* A quicklist: the number of segments, then each segment as a raw string
EncodeQuicklist(bufs) ==
    <<Len(bufs)>> \o Concat([i \in 1..Len(bufs) |-> EncRaw(bufs[i])])

\* The elements of the segments, in segment order
QuicklistExpected(segs) ==
    Concat([i \in 1..Len(segs) |-> Expected("segment", segs[i])])

CodecInit ==
    /\ ParseIdle
    /\ ContainerIdle
    /\ \/ \E b \in LengthInputs : StartCall("read_length_with_encoding", 0, b, <<>>)
       \* sets in each of the three encodings
       \/ \E q \in SeqsUpTo(Texts, MaxElems) :
            StartCall("read_value", TYPE_SET, EncodeSet(q), <<>>)
       \/ \E in \in IntsetInputs(MaxElems) :
            StartCall("read_value", TYPE_SET_INTSET, EncRaw(EncodeIntset(in)), <<>>)
       \/ \E in \in SeqsUpTo(ListpackItems, MaxElems) :
            StartCall("read_value", TYPE_SET_LISTPACK,
                      EncRaw(EncodeListpack(in, Len(in), TRUE)), <<>>)
       \* sorted sets in a ziplist and in a listpack
       \/ \E pairs \in SeqsUpTo(ZiplistZsetPairs, MaxElems) :
            StartCall("read_value", TYPE_ZSET_ZIPLIST,
                      EncRaw(EncodeZiplist(PairItems(pairs), 2 * Len(pairs))),
                      ZsetExpected(pairs))
       \/ \E pairs \in SeqsUpTo(ListpackZsetPairs, MaxElems) :
            StartCall("read_value", TYPE_ZSET_LISTPACK,
                      EncRaw(EncodeListpack(PairItems(pairs), 2 * Len(pairs), TRUE)),
                      ZsetExpected(pairs))
       \* quicklists of ziplists (14) and of listpacks (18)
       \/ \E segs \in SeqsUpTo(ZiplistSegments, MaxElems) :
            StartCall("read_value", TYPE_LIST_QUICKLIST,
                      EncodeQuicklist([i \in 1..Len(segs) |->
                                        EncodeZiplist(segs[i], Len(segs[i]))]),
                      QuicklistExpected(segs))
       \/ \E segs \in SeqsUpTo(ListpackSegments, MaxElems) :
            StartCall("read_value", TYPE_LIST_QUICKLIST_2,
                      EncodeQuicklist([i \in 1..Len(segs) |->
                                        EncodeListpack(segs[i], Len(segs[i]), TRUE)]),
                      QuicklistExpected(segs))

ReadLengthCall ==
    /\ call.pc = "ready"
    /\ call.op = "read_length_with_encoding"
    /\ call' = [call EXCEPT !.pc = "done",
                            !.ret = read_length_with_encoding(call.buf, 0)]
    /\ UNCHANGED <<cname, cbuf, cin, cpc, cst>>
    /\ UNCHANGED parseVars

ReadValueCall ==
    /\ call.pc = "ready"
    /\ call.op = "read_value"
    /\ call' = [call EXCEPT !.pc = "done",
                            !.ret = read_value(call.buf, 0, call.value_type)]
    /\ UNCHANGED <<cname, cbuf, cin, cpc, cst>>
    /\ UNCHANGED parseVars

CodecNext == ReadLengthCall \/ ReadValueCall

CodecSpec == CodecInit /\ [][CodecNext]_vars

\* The decimal text of the unsigned value of the bytes b read big-endian
BigEndianDecimal(b) == UnsignedDecimal([i \in 1..Len(b) |-> b[Len(b) + 1 - i]])

\* C11: after the prefix byte 0x80 the length returned is the unsigned value
\* of the next 4 bytes read big-endian, after 0x81 that of the next 8 bytes
\* read big-endian, and is_encoded is false in both cases.
C11_WideLengths ==
    (call.op = "read_length_with_encoding" /\ call.pc = "done")
        => /\ (Len(call.buf) >= 5 /\ call.buf[1] = 128)
                => /\ call.ret.err = "ok"
                   /\ ~call.ret.val.is_encoded
                   /\ str(call.ret.val.length) = BigEndianDecimal(SubSeq(call.buf, 2, 5))
           /\ (Len(call.buf) >= 9 /\ call.buf[1] = 129)
                => /\ call.ret.err = "ok"
                   /\ ~call.ret.val.is_encoded
                   /\ str(call.ret.val.length) = BigEndianDecimal(SubSeq(call.buf, 2, 9))

\* C15: a value of type set has no duplicate members, whichever encoding it
\* was read from: plain set (2), intset (11) or listpack set (20).
C15_SetsHaveNoDuplicates ==
    (/\ call.op = "read_value"
     /\ call.pc = "done"
     /\ call.value_type \in {TYPE_SET, TYPE_SET_INTSET, TYPE_SET_LISTPACK}
     /\ call.ret.err = "ok")
        => \A i, j \in 1..Len(call.ret.val.items) :
                i # j => call.ret.val.items[i] # call.ret.val.items[j]

\* C17: a sorted set read from a ziplist (12) or a listpack (17) of 2n
\* elements is the n pairs in on-disk order, the member being the text of
\* element 2i and the score the number element 2i+1 denotes, whether that
\* element is an integer entry or a string entry holding the score's text.
C17_ZsetPairs ==
    (/\ call.op = "read_value"
     /\ call.pc = "done"
     /\ call.value_type \in {TYPE_ZSET_ZIPLIST, TYPE_ZSET_LISTPACK})
        => /\ call.ret.err = "ok"
           /\ call.ret.val = Value("zset", call.in)

\* C18: the segments of a quicklist are parsed by the decoder the value type
\* selects, as ziplists for type 14 and as listpacks for type 18, and the
\* value is the elements of the segments in segment order.
C18_QuicklistSegments ==
    (/\ call.op = "read_value"
     /\ call.pc = "done"
     /\ call.value_type \in {TYPE_LIST_QUICKLIST, TYPE_LIST_QUICKLIST_2})
        => /\ call.ret.err = "ok"
           /\ call.ret.val = Value("list", call.in)

====
